---- MODULE Spec2Model ----
(***************************************************************************)
(* Model of gilbertfullah/photo_comparsion.                                *)
(*                                                                         *)
(*   src/verification_app.py    the manual verification session: a         *)
(*                              Streamlit script that is re-run on every   *)
(*                              widget event and keeps its state in        *)
(*                              st.session_state.verification_data         *)
(*   src/rdn_photo_comparison.py  compare_images, get_similarity_class and *)
(*                              the batch comparison run                   *)
(*                                                                         *)
(* Scores are modelled in hundredths (0.75 is 75).  The file system, the   *)
(* image decoder and the SSIM library are the environment: what they       *)
(* return is drawn from small sets at the point where the code calls them. *)
(***************************************************************************)
EXTENDS Integers, Sequences, FiniteSets, TLC

VARIABLES
    \* ---- verification_app.py ----
    verification_data,  \* st.session_state.verification_data
    text,               \* the value held by the st.text_input widget
    page,               \* what the last script run rendered
    clicked,            \* the button event delivered to the last script run
    loaded,             \* the folder snapshot read by the last state reset
    now,                \* the clock read by datetime.now()
    \* ---- rdn_photo_comparison.py, batch comparison ----
    ref_files,          \* names of the uploaded reference photos
    field_files,        \* names of the uploaded field photos
    bpc,                \* position of the batch run
    todo,               \* sorted(common_files) still to visit
    compared,           \* the filenames compare_images was called for
    results,            \* the list results
    report,             \* what the run put on the page
    \* ---- rdn_photo_comparison.py, one call of compare_images ----
    image1, image2,     \* the two PIL images passed in
    cpc,                \* "input" before the call, "done" after it
    cmp_result,         \* the tuple compare_images returned
    \* ---- rdn_photo_comparison.py, classification of one score ----
    score,              \* a similarity score, in hundredths
    spc,                \* "input" before the classification, "done" after
    match,              \* the match flag the batch run stores for it
    label,              \* the CSS class the display gives it
    \* ---- verification_app.py, one call of get_image_pairs ----
    listing,            \* what os.listdir(folder_path) answers
    gpc,                \* "input" before the call, "done" after it
    valid_pairs         \* the list get_image_pairs returned

vVars == <<verification_data, text, page, clicked, loaded, now>>

bVars == <<ref_files, field_files, bpc, todo, compared, results, report>>

cVars == <<image1, image2, cpc, cmp_result>>

sVars == <<score, spc, match, label>>

gVars == <<listing, gpc, valid_pairs>>

vars == <<vVars, bVars, cVars, sVars, gVars>>

----------------------------------------------------------------------------
(* Bounds *)

NumIds == 2        \* property identifiers that may occur in a folder
MaxClock == 3      \* decisions recorded in one behaviour (clock ticks)
MaxFiles == 4      \* files in the folder of one call of get_image_pairs
NumNames == 4      \* file names that may be uploaded to a batch run
MaxExtra == 2      \* image sides range up to WinSize + MaxExtra pixels
ScoreMax == 100    \* scores range over -ScoreMax..ScoreMax hundredths

----------------------------------------------------------------------------
(* File names: a name is a sequence of tokens, the last one its extension. *)

IdNames == <<"p1", "p2", "p3", "p4", "p5">>

Ids == {IdNames[i] : i \in 1..NumIds}

\* the value of a missing dict key or of a state field that is None
None == "None"

\* a slot of the dict that holds no file name (a file name is never empty)
NoFile == <<>>

\* str.lower() on the tokens that occur
Lower(tok) ==
    CASE tok = ".JPG" -> ".jpg"
      [] tok = ".PNG" -> ".png"
      [] tok = "_ORIGINAL" -> "_original"
      [] OTHER -> tok

\* file.lower().endswith(('.png', '.jpg', '.jpeg'))
IsImageFile(file) ==
    /\ Len(file) > 0
    /\ Lower(file[Len(file)]) \in {".png", ".jpg", ".jpeg"}

\* marker in file
Contains(file, marker) == \E i \in 1..Len(file) : file[i] = marker

\* file.split(marker)[0]
SplitFirst(file, marker) ==
    LET first == CHOOSE i \in 1..Len(file) :
                    /\ file[i] = marker
                    /\ \A j \in 1..(i - 1) : file[j] # marker
    IN  SubSeq(file, 1, first - 1)

\* os.path.join(folder_path, file)
PathJoin(folder_path, file) == <<folder_path, file>>

\* The dict image_pairs of get_image_pairs: keys in insertion order, and
\* the slots of each key.
EmptyDict == [keys |-> <<>>, original |-> <<>>, proof |-> <<>>]

HasKey(d, k) == \E i \in 1..Len(d.keys) : d.keys[i] = k

KeyIndex(d, k) == CHOOSE i \in 1..Len(d.keys) : d.keys[i] = k

\* image_pairs.setdefault(base_id, {})[slot] = file
SetSlot(d, base_id, slot, file) ==
    LET d1 == IF HasKey(d, base_id) THEN d
              ELSE [keys |-> Append(d.keys, base_id),
                    original |-> Append(d.original, NoFile),
                    proof |-> Append(d.proof, NoFile)]
        i == KeyIndex(d1, base_id)
    IN  IF slot = "original"
        THEN [d1 EXCEPT !.original[i] = file]
        ELSE [d1 EXCEPT !.proof[i] = file]

\* faulty variant: the _proof marker is looked for first
ScanFileProofFirst(d, file) ==
    IF ~IsImageFile(file) THEN d
    ELSE IF Contains(file, "_proof")
         THEN SetSlot(d, SplitFirst(file, "_proof"), "proof", file)
    ELSE IF Contains(file, "_original")
         THEN SetSlot(d, SplitFirst(file, "_original"), "original", file)
    ELSE d

\* the body of the loop over os.listdir(folder_path)
ScanFile(d, file) ==
    IF ~IsImageFile(file) THEN d
    ELSE IF Contains(file, "_original")
         THEN SetSlot(d, SplitFirst(file, "_original"), "original", file)
    ELSE IF Contains(file, "_proof")
         THEN SetSlot(d, SplitFirst(file, "_proof"), "proof", file)
    ELSE d

RECURSIVE ScanFiles(_, _)
ScanFiles(d, files) ==
    IF files = <<>> THEN d
    ELSE ScanFiles(ScanFile(d, Head(files)), Tail(files))

\* faulty variant: a pair is kept as soon as its original is there
RECURSIVE ValidPairsOriginalOnly(_, _, _)
ValidPairsOriginalOnly(folder_path, d, i) ==
    IF i > Len(d.keys) THEN <<>>
    ELSE LET rest == ValidPairsOriginalOnly(folder_path, d, i + 1)
         IN  IF d.original[i] # NoFile
             THEN <<[id |-> d.keys[i],
                     original |-> PathJoin(folder_path, d.original[i]),
                     proof |-> PathJoin(folder_path, d.proof[i])]>> \o rest
             ELSE rest

\* the loop that keeps the pairs with both images, in dict order
RECURSIVE ValidPairs(_, _, _)
ValidPairs(folder_path, d, i) ==
    IF i > Len(d.keys) THEN <<>>
    ELSE LET rest == ValidPairs(folder_path, d, i + 1)
         IN  IF d.original[i] # NoFile /\ d.proof[i] # NoFile
             THEN <<[id |-> d.keys[i],
                     original |-> PathJoin(folder_path, d.original[i]),
                     proof |-> PathJoin(folder_path, d.proof[i])]>> \o rest
             ELSE rest

\* get_image_pairs(folder_path) when os.listdir answers `ls`: it raises
\* (no such folder, or not a folder), which the except clause turns into
\* [], or it returns the names ls.files in some order.
get_image_pairs(folder_path, ls) ==
    IF ls.raises THEN <<>>
    ELSE ValidPairs(folder_path, ScanFiles(EmptyDict, ls.files), 1)

----------------------------------------------------------------------------
(* The folders the environment may hold at the moment the script looks.   *)

Paths == {"dirA", "dirB"}

\* the files that may lie in a folder given to the verification tool
SessionFiles ==
    UNION {{<<id, "_original", ".jpg">>, <<id, "_proof", ".PNG">>} : id \in Ids}

\* a folder as one script run finds it: absent, not a folder, or a folder
\* holding a set of files
Snapshots ==
    {[kind |-> "absent", files |-> {}], [kind |-> "notdir", files |-> {}]}
        \cup {[kind |-> "dir", files |-> S] : S \in SUBSET SessionFiles}

NoSnapshot == [kind |-> "none", files |-> {}]

\* the orders in which os.listdir may return the names of a set of files
Listings(S) ==
    {l \in [1..Cardinality(S) -> S] : \A f \in S : \E i \in DOMAIN l : l[i] = f}

\* os.listdir(folder_path) on a snapshot
ListDir(snap) ==
    IF snap.kind = "dir"
    THEN {[raises |-> FALSE, files |-> l] : l \in Listings(snap.files)}
    ELSE {[raises |-> TRUE, files |-> <<>>]}

\* os.path.exists(folder_path) on a snapshot
PathExists(snap) == snap.kind # "absent"

\* what one script run can read of the folder at path p: the snapshot and
\* the pair list get_image_pairs would build from it
LoadOutcomes ==
    [p \in Paths |->
        {[snap |-> snap, pairs |-> get_image_pairs(p, ls)] :
            <<snap, ls>> \in UNION {{<<sn, l>> : l \in ListDir(sn)} : sn \in Snapshots}}]

----------------------------------------------------------------------------
(* verification_app.py: main() *)

Decisions == {"Yes", "No", "No Decision"}

\* the session state created when 'verification_data' is not in
\* st.session_state
InitialData ==
    [current_pair |-> 0,
     decisions |-> <<>>,
     image_pairs |-> <<>>,
     verification_complete |-> FALSE,
     folder_path |-> None]

\* the session state assigned when the folder path changes
ResetData(folder_path, pairs) ==
    [current_pair |-> 0,
     decisions |-> <<>>,
     image_pairs |-> pairs,
     verification_complete |-> FALSE,
     folder_path |-> folder_path]

\* faulty variant: the state is reset on every run that has a folder path
PathChangedAlways(vd, folder_path) == folder_path # ""

\* "Reset state if folder path changes"
PathChanged(vd, folder_path) ==
    folder_path # "" /\ folder_path # vd.folder_path

\* pd.DataFrame(decisions).to_csv(index=False): one row per record, the
\* columns in the order of the record's keys
ToCsv(decisions) ==
    [i \in 1..Len(decisions) |->
        <<decisions[i].property_id, decisions[i].decision, decisions[i].timestamp>>]

BlankPage ==
    [error |-> "none", shown |-> 0, buttons |-> FALSE,
     success |-> FALSE, download |-> FALSE, csv |-> <<>>]

\* faulty variant: the download is offered as soon as the log holds a record
FooterNoCompleteCheck(vd, pg) ==
    IF vd.decisions # <<>>
    THEN [pg EXCEPT !.success = vd.verification_complete, !.download = TRUE,
                    !.csv = ToCsv(vd.decisions)]
    ELSE [pg EXCEPT !.success = vd.verification_complete]

\* "Show completion message and download button"
Footer(vd, pg) ==
    IF vd.verification_complete
    THEN IF vd.decisions # <<>>
         THEN [pg EXCEPT !.success = TRUE, !.download = TRUE,
                         !.csv = ToCsv(vd.decisions)]
         ELSE [pg EXCEPT !.success = TRUE]
    ELSE pg

\* faulty variant: the record names the first pair of the list
RecordDecisionFirstPair(vd, decision, timestamp) ==
    LET current_data == vd.image_pairs[1]
    IN  [vd EXCEPT
            !.decisions = Append(@, [property_id |-> current_data.id,
                                     decision |-> decision,
                                     timestamp |-> timestamp]),
            !.current_pair = @ + 1]

\* faulty variant: the "No Decision" button skips the pair without a record
RecordDecisionNoLog(vd, decision, timestamp) ==
    LET current_data == vd.image_pairs[vd.current_pair + 1]
    IN  IF decision = "No Decision"
        THEN [vd EXCEPT !.current_pair = @ + 1]
        ELSE [vd EXCEPT
                !.decisions = Append(@, [property_id |-> current_data.id,
                                         decision |-> decision,
                                         timestamp |-> timestamp]),
                !.current_pair = @ + 1]

\* the three decision buttons: append a record, advance the cursor
RecordDecision(vd, decision, timestamp) ==
    LET current_data == vd.image_pairs[vd.current_pair + 1]
    IN  [vd EXCEPT
            !.decisions = Append(@, [property_id |-> current_data.id,
                                     decision |-> decision,
                                     timestamp |-> timestamp]),
            !.current_pair = @ + 1]

\* the cursor test that ends the review
ReviewDone(vd) == vd.current_pair >= Len(vd.image_pairs)

\* faulty variant: the flag is never set
MarkCompleteNever(vd) == vd

\* verification_data['verification_complete'] = True
MarkComplete(vd) == [vd EXCEPT !.verification_complete = TRUE]

\* One execution of main() after the state reset: folder_path is the text
\* input, exists is os.path.exists(folder_path), click the button event.
\* rerun tells that st.rerun() was called.
MainLogic(vd, folder_path, exists, click, timestamp) ==
    IF folder_path = ""
    THEN [vd |-> vd, page |-> Footer(vd, BlankPage), rerun |-> FALSE]
    ELSE IF ~exists
    THEN [vd |-> vd, page |-> [BlankPage EXCEPT !.error = "nofolder"],
          rerun |-> FALSE]
    ELSE IF vd.image_pairs = <<>>
    THEN [vd |-> vd, page |-> [BlankPage EXCEPT !.error = "nopairs"],
          rerun |-> FALSE]
    ELSE IF ReviewDone(vd)
    THEN LET done == MarkComplete(vd)
         IN  [vd |-> done, page |-> Footer(done, BlankPage), rerun |-> FALSE]
    ELSE IF click # "none"
    THEN [vd |-> RecordDecision(vd, click, timestamp), page |-> BlankPage,
          rerun |-> TRUE]
    ELSE [vd |-> vd,
          page |-> Footer(vd, [BlankPage EXCEPT !.shown = vd.current_pair + 1,
                                                !.buttons = TRUE]),
          rerun |-> FALSE]

\* One execution of main(): the state reset when the folder path changed,
\* then the main logic.  outcome is what the run reads of the folder.
OneRun(vd0, folder_path, outcome, click, timestamp) ==
    LET vd1 == IF PathChanged(vd0, folder_path)
               THEN ResetData(folder_path, outcome.pairs)
               ELSE vd0
    IN  MainLogic(vd1, folder_path, PathExists(outcome.snap), click, timestamp)

\* One script run and, when it ends in st.rerun(), the run that follows
\* at once: no widget event, the same text, the folder as the first run
\* found it.
Script(vd0, folder_path, outcome, click, timestamp) ==
    LET first == OneRun(vd0, folder_path, outcome, click, timestamp)
    IN  IF first.rerun
        THEN OneRun(first.vd, folder_path, outcome, "none", timestamp)
        ELSE first

\* What one script run reads of the file system: nothing when the text
\* input is empty; os.listdir (in get_image_pairs) and os.path.exists when
\* the path changed; os.path.exists alone otherwise.
FolderReads(vd, p) ==
    IF p = "" THEN {[snap |-> NoSnapshot, pairs |-> <<>>]}
    ELSE IF PathChanged(vd, p) THEN LoadOutcomes[p]
    ELSE {[snap |-> [kind |-> k, files |-> {}], pairs |-> <<>>] :
            k \in {"absent", "dir"}}

\* The user commits a value in the text input (or the page is re-run with
\* the value it holds).
EnterPath(p) ==
    /\ \E outcome \in FolderReads(verification_data, p) :
          LET r == Script(verification_data, p, outcome, "none", now)
          IN  /\ verification_data' = r.vd
              /\ page' = r.page
              /\ loaded' = IF PathChanged(verification_data, p)
                           THEN outcome.snap ELSE loaded
    /\ text' = p
    /\ clicked' = "none"
    /\ now' = now
    /\ UNCHANGED <<bVars, cVars, sVars, gVars>>

\* The user clicks one of the decision buttons the last run rendered.
Decide(d) ==
    /\ page.buttons
    /\ now < MaxClock
    /\ \E outcome \in FolderReads(verification_data, text) :
          LET r == Script(verification_data, text, outcome, d, now)
          IN  /\ verification_data' = r.vd
              /\ page' = r.page
              /\ loaded' = IF PathChanged(verification_data, text)
                           THEN outcome.snap ELSE loaded
              /\ now' = IF r.vd.decisions # verification_data.decisions
                        THEN now + 1 ELSE now
    /\ text' = text
    /\ clicked' = d
    /\ UNCHANGED <<bVars, cVars, sVars, gVars>>

----------------------------------------------------------------------------
(* rdn_photo_comparison.py: compare_images *)

\* win_size of skimage's structural_similarity, which the call leaves at
\* its default
WinSize == 7

Min(a, b) == IF a < b THEN a ELSE b

\* An uploaded image as PIL sees it: kind "ok", "truncated" (the header is
\* read, the pixel data cannot be decoded) or "unidentified" (Image.open
\* raises); h, w the size; ch the number of channels of its numpy array
\* (1 stands for a two-dimensional array of a greyscale or palette image).
Image(kind, h, w, ch) == [kind |-> kind, h |-> h, w |-> w, ch |-> ch]

NoImage == [h |-> 0, w |-> 0, ch |-> 0]

\* return None, None, None, None
NoneResult ==
    [none |-> TRUE, score |-> 0, image1 |-> NoImage, image2 |-> NoImage,
     image_copy |-> NoImage]

\* Image.open(file) succeeds
CanOpen(img) == img.kind # "unidentified"

\* np.array(image) yields the pixel array
CanDecode(img) == img.kind = "ok"

\* the shape of np.array(image)
ArrayOf(img) == [h |-> img.h, w |-> img.w, ch |-> img.ch]

\* faulty variant: cv2.resize given (height, width) for dsize
ResizeSwapped(a, width, height) == [h |-> width, w |-> height, ch |-> a.ch]

\* cv2.resize(image, (width, height)): dsize is (columns, rows)
Resize(a, width, height) == [h |-> height, w |-> width, ch |-> a.ch]

\* cv2.cvtColor(image, cv2.COLOR_BGR2GRAY) accepts 3 or 4 channels
CanGray(a) == a.ch \in {3, 4}

ToGray(a) == [a EXCEPT !.ch = 1]

\* cv2.cvtColor(image, cv2.COLOR_BGR2RGB) yields 3 channels
ToRGB(a) == [a EXCEPT !.ch = 3]

\* ssim(gray1, gray2, full=True) raises unless the shapes agree and every
\* side holds the window
CanSsim(g1, g2) ==
    /\ g1 = g2
    /\ g1.h >= WinSize
    /\ g1.w >= WinSize

\* compare_images(image1, image2) when the SSIM of the two grey images is
\* ssim_score; every exception inside it ends in the except clause
compare_images(img1, img2, ssim_score) ==
    IF ~CanDecode(img1) \/ ~CanDecode(img2) THEN NoneResult
    ELSE
    LET a1 == ArrayOf(img1)
        a2 == ArrayOf(img2)
        height == Min(a1.h, a2.h)
        width == Min(a1.w, a2.w)
        r1 == Resize(a1, width, height)
        r2 == Resize(a2, width, height)
    IN  IF ~CanGray(r1) \/ ~CanGray(r2) THEN NoneResult
        ELSE IF ~CanSsim(ToGray(r1), ToGray(r2)) THEN NoneResult
        ELSE [none |-> FALSE,
              score |-> ssim_score,
              image1 |-> ToRGB(r1),
              image2 |-> ToRGB(r2),
              image_copy |-> ToRGB(r2)]

(* get_similarity_class and the batch match flag *)

HighThreshold == 80

MediumThreshold == 60

MatchThreshold == 75

\* faulty variant: the boundary counts as high
get_similarity_class_ge(sc) ==
    IF sc >= HighThreshold THEN "similarity-high"
    ELSE IF sc > MediumThreshold THEN "similarity-medium"
    ELSE "similarity-low"

get_similarity_class(sc) ==
    IF sc > HighThreshold THEN "similarity-high"
    ELSE IF sc > MediumThreshold THEN "similarity-medium"
    ELSE "similarity-low"

\* 'match': score > 0.75
IsMatch(sc) == sc > MatchThreshold

----------------------------------------------------------------------------
(* rdn_photo_comparison.py: main(), batch comparison *)

Names == <<"A", "B", "C", "D", "E", "F">>

FileNames == {Names[i] : i \in 1..NumNames}

\* sorted(S) for a set of file names
Sorted(S) == SelectSeq(Names, LAMBDA n : n \in S)

\* set(ref_dict.keys()) & set(field_dict.keys())
CommonFiles(refs, fields) == refs \cap fields

\* the SSIM values the library may return for a pair of images
SsimScores == {50, 60, 61, 75, 76, 80, 81}

\* what the uploaded files of a batch run may hold
BatchImages ==
    {Image("ok", WinSize + 1, WinSize + 1, 3),
     Image("ok", WinSize + 1, WinSize + 1, 4),
     Image("ok", WinSize + 1, WinSize + 1, 1),
     Image("ok", WinSize - 1, WinSize + 1, 3),
     Image("truncated", WinSize + 1, WinSize + 1, 3),
     Image("unidentified", 0, 0, 0)}

NoReport ==
    [status |-> "none", completed |-> 0, total |-> 0, matched |-> 0,
     percent |-> 0, nonmatching |-> 0]

\* sum(1 for r in results if r['match'])
Matched(rs) == Cardinality({i \in 1..Len(rs) : rs[i].match})

\* the summary statistics; matched/total*100 is given in tenths of a
\* percent (no tie arises in the rounding for the totals reached here)
Summary(rs) ==
    LET total == Len(rs)
        matched == Matched(rs)
    IN  [status |-> "summary",
         completed |-> total,
         total |-> total,
         matched |-> matched,
         percent |-> (2000 * matched + total) \div (2 * total),
         nonmatching |-> total - matched]

\* "Process Batch Comparison" is clicked: the dicts, the common names
ProcessBatch ==
    /\ bpc = "idle"
    /\ ref_files # {}
    /\ field_files # {}
    /\ LET common_files == CommonFiles(ref_files, field_files)
       IN  IF common_files = {}
           THEN /\ report' = [NoReport EXCEPT !.status = "nomatch"]
                /\ bpc' = "done"
                /\ todo' = <<>>
           ELSE /\ report' = report
                /\ bpc' = "loop"
                /\ todo' = Sorted(common_files)
    /\ results' = <<>>
    /\ compared' = <<>>
    /\ UNCHANGED <<ref_files, field_files, vVars, cVars, sVars, gVars>>

\* one round of the loop over sorted(common_files)
BatchCompare ==
    /\ bpc = "loop"
    /\ todo # <<>>
    /\ LET filename == Head(todo)
       IN  \E ref_img \in BatchImages, field_img \in BatchImages :
              IF ~CanOpen(ref_img) \/ ~CanOpen(field_img)
              THEN \* Image.open raises: nothing catches it
                   /\ bpc' = "aborted"
                   /\ report' = [NoReport EXCEPT !.status = "exception"]
                   /\ UNCHANGED <<todo, compared, results>>
              ELSE \E ssim_score \in SsimScores :
                   LET r == compare_images(ref_img, field_img, ssim_score)
                   IN  /\ compared' = Append(compared, filename)
                       /\ results' =
                            IF ~r.none
                            THEN Append(results,
                                        [filename |-> filename,
                                         score |-> r.score,
                                         match |-> IsMatch(r.score),
                                         diff_img |-> r.image_copy])
                            ELSE results
                       /\ todo' = Tail(todo)
                       /\ UNCHANGED <<bpc, report>>
    /\ UNCHANGED <<ref_files, field_files, vVars, cVars, sVars, gVars>>

\* after the loop: the success message and the summary statistics
BatchSummary ==
    /\ bpc = "loop"
    /\ todo = <<>>
    /\ IF Len(results) = 0
       THEN \* matched/total raises ZeroDivisionError
            /\ bpc' = "aborted"
            /\ report' = [NoReport EXCEPT !.status = "exception"]
       ELSE /\ bpc' = "done"
            /\ report' = Summary(results)
    /\ UNCHANGED <<ref_files, field_files, todo, compared, results,
                   vVars, cVars, sVars, gVars>>

----------------------------------------------------------------------------
(* One call of compare_images, and the classification of one score *)

Sides == (WinSize - 1)..(WinSize + MaxExtra)

\* the images handed to compare_images (Image.open has succeeded)
CompareImages ==
    {Image(k, h, w, ch) :
        k \in {"ok", "truncated"}, h \in Sides, w \in Sides, ch \in {1, 3, 4}}

Compare ==
    /\ cpc = "input"
    /\ \E ssim_score \in SsimScores :
          cmp_result' = compare_images(image1, image2, ssim_score)
    /\ cpc' = "done"
    /\ UNCHANGED <<image1, image2, vVars, bVars, sVars, gVars>>

Scores == (0 - ScoreMax)..ScoreMax

Classify ==
    /\ spc = "input"
    /\ match' = IsMatch(score)
    /\ label' = get_similarity_class(score)
    /\ spc' = "done"
    /\ UNCHANGED <<score, vVars, bVars, cVars, gVars>>

----------------------------------------------------------------------------
(* Specifications *)

\* the page as first loaded: the text input is empty
SessionInit ==
    /\ verification_data = InitialData
    /\ text = ""
    /\ page = BlankPage
    /\ clicked = "none"
    /\ loaded = NoSnapshot
    /\ now = 0

BatchIdle ==
    /\ bpc = "idle"
    /\ todo = <<>>
    /\ compared = <<>>
    /\ results = <<>>
    /\ report = NoReport

CompareIdle ==
    /\ image1 = Image("ok", WinSize, WinSize, 3)
    /\ image2 = Image("ok", WinSize, WinSize, 3)
    /\ cpc = "off"
    /\ cmp_result = NoneResult

ScoreIdle ==
    /\ score = 0
    /\ spc = "off"
    /\ match = FALSE
    /\ label = "none"

PairsIdle ==
    /\ listing = [raises |-> TRUE, files |-> <<>>]
    /\ gpc = "off"
    /\ valid_pairs = <<>>

\* the verification tool
Init ==
    /\ SessionInit
    /\ BatchIdle /\ ref_files = {} /\ field_files = {}
    /\ CompareIdle
    /\ ScoreIdle
    /\ PairsIdle

Next ==
    \/ \E p \in Paths \cup {""} : EnterPath(p)
    \/ \E d \in Decisions : Decide(d)

Spec == Init /\ [][Next]_vars

\* a batch run of the comparison tool over two uploaded collections
BatchInit ==
    /\ SessionInit
    /\ BatchIdle
    /\ ref_files \in SUBSET FileNames
    /\ field_files \in SUBSET FileNames
    /\ CompareIdle
    /\ ScoreIdle
    /\ PairsIdle

BatchNext ==
    \/ ProcessBatch
    \/ BatchCompare
    \/ BatchSummary

BatchSpec == BatchInit /\ [][BatchNext]_vars

\* compare_images on two images
CompareInit ==
    /\ SessionInit
    /\ BatchIdle /\ ref_files = {} /\ field_files = {}
    /\ image1 \in CompareImages
    /\ image2 \in CompareImages
    /\ cpc = "input"
    /\ cmp_result = NoneResult
    /\ ScoreIdle
    /\ PairsIdle

CompareNext == Compare

CompareSpec == CompareInit /\ [][CompareNext]_vars

\* the two classifications of a score
ScoreInit ==
    /\ SessionInit
    /\ BatchIdle /\ ref_files = {} /\ field_files = {}
    /\ CompareIdle
    /\ score \in Scores
    /\ spc = "input"
    /\ match = FALSE
    /\ label = "none"
    /\ PairsIdle

ScoreNext == Classify

ScoreSpec == ScoreInit /\ [][ScoreNext]_vars

\* The file names a folder may hold in one call of get_image_pairs: clean
\* names, a second original of one identifier, names with both markers,
\* an upper-case extension, an upper-case marker, a file that is no image,
\* and names with nothing before the marker.
PairFiles ==
    {<<"p1", "_original", ".jpg">>,
     <<"p1", "_proof", ".PNG">>,
     <<"p1", "_original", ".png">>,
     <<"p2", "_original", ".jpeg">>,
     <<"p2", "_proof", ".jpg">>,
     <<"p1", "_proof", "_original", ".jpg">>,
     <<"p2", "_original", "_proof", ".jpg">>,
     <<"p2", "_proof", ".txt">>,
     <<"p1", "_ORIGINAL", ".jpg">>,
     <<"_original", ".jpg">>,
     <<"_proof", ".jpg">>}

\* what os.listdir may answer: it raises, or it returns up to MaxFiles
\* distinct names in some order
PairListings ==
    {[raises |-> TRUE, files |-> <<>>]} \cup
    {[raises |-> FALSE, files |-> l] :
        l \in {f \in UNION {[1..n -> PairFiles] : n \in 0..MaxFiles} :
                  \A i, j \in DOMAIN f : i # j => f[i] # f[j]}}

\* the folder path of the call
PairFolder == "dirA"

GetPairs ==
    /\ gpc = "input"
    /\ valid_pairs' = get_image_pairs(PairFolder, listing)
    /\ gpc' = "done"
    /\ UNCHANGED <<listing, vVars, bVars, cVars, sVars>>

\* get_image_pairs on one folder
PairsInit ==
    /\ SessionInit
    /\ BatchIdle /\ ref_files = {} /\ field_files = {}
    /\ CompareIdle
    /\ ScoreIdle
    /\ listing \in PairListings
    /\ gpc = "input"
    /\ valid_pairs = <<>>

PairsNext == GetPairs

PairsSpec == PairsInit /\ [][PairsNext]_vars

----------------------------------------------------------------------------
(* The verification session: names used by the properties *)

cursor == verification_data.current_pair

log == verification_data.decisions

pairs == verification_data.image_pairs

Total == Len(verification_data.image_pairs)

Complete == verification_data.verification_complete

\* a pair and the decision buttons are on the page
Reviewing == page.buttons

\* the folder holds an _original and a _proof image of one identifier
HasCompletePair(snap) ==
    /\ snap.kind = "dir"
    /\ \E id \in Ids :
          /\ <<id, "_original", ".jpg">> \in snap.files
          /\ <<id, "_proof", ".PNG">> \in snap.files

\* the step is a script run triggered by the text input
PathStep == clicked' = "none"

\* the step is a script run triggered by a decision button, and the run
\* found the folder in place (it reached the buttons)
ClickStep == clicked' \in Decisions /\ page'.error # "nofolder"

C3_RecordAppendsOne ==
    [][ClickStep =>
        /\ Reviewing
        /\ cursor < Total
        /\ verification_data'.decisions =
              Append(log, [property_id |-> pairs[cursor + 1].id,
                           decision |-> clicked',
                           timestamp |-> now])
        /\ verification_data'.current_pair = cursor + 1
        /\ verification_data'.image_pairs = pairs
        /\ verification_data'.folder_path = verification_data.folder_path]_vars

C3_Witness ==
    /\ clicked = "No Decision"
    /\ cursor = 1
    /\ Total = 2
    /\ Reviewing
    /\ log[1].decision = "No Decision"

\* C4: a script run given a non-empty folder path that differs from the
\* stored one sets the cursor to 0, empties the log, clears the completion
\* flag, stores the path and loads the pair list from the folder as found;
\* a run given the stored path or the empty path changes neither the cursor
\* nor the log.
C4_NewPathResets ==
    [][PathStep =>
        IF text' # "" /\ text' # verification_data.folder_path
        THEN /\ verification_data'.current_pair = 0
             /\ verification_data'.decisions = <<>>
             /\ ~verification_data'.verification_complete
             /\ verification_data'.folder_path = text'
             /\ [snap |-> loaded', pairs |-> verification_data'.image_pairs]
                   \in LoadOutcomes[text']
        ELSE /\ verification_data'.current_pair = cursor
             /\ verification_data'.decisions = log
             /\ verification_data'.image_pairs = pairs]_vars

\* a reset that followed recorded decisions and loaded two pairs
C4_Witness ==
    /\ now >= 2
    /\ clicked = "none"
    /\ cursor = 0
    /\ log = <<>>
    /\ Total = 2
    /\ verification_data.folder_path = "dirB"

\* C9 as stated: whenever an error is on the page nothing else is, the log
\* is empty and the session is not Complete.
C9_Original ==
    /\ (text # "" /\ pairs = <<>>) => page.error # "none"
    /\ page.error # "none" =>
          /\ ~Reviewing
          /\ page.shown = 0
          /\ ~page.download
          /\ ~Complete
          /\ log = <<>>

\* C9 (amended): a run that finds the folder missing, or that loads a
\* folder without a complete original/proof pair, shows an error and
\* nothing else: no pair, no decision buttons, no completion message, no
\* download.  When the path was newly supplied the log is empty and the
\* session is not Complete; when it is the stored path the session state
\* is kept as it was.  The error is not fatal: a run given another path,
\* whose folder holds a complete pair, starts Reviewing at cursor 0.
C9_ErrorsShownNotFatal ==
    /\ [](/\ (text # "" /\ pairs = <<>>) => page.error # "none"
          /\ page.error # "none" =>
                /\ ~Reviewing
                /\ page.shown = 0
                /\ ~page.success
                /\ ~page.download
          /\ page.error = "nopairs" => (log = <<>> /\ cursor = 0 /\ ~Complete))
    /\ [][/\ verification_data'.folder_path # verification_data.folder_path =>
                /\ loaded'.kind = "absent" => page'.error = "nofolder"
                /\ (loaded'.kind # "absent" /\ ~HasCompletePair(loaded'))
                      => page'.error = "nopairs"
                /\ HasCompletePair(loaded') =>
                      /\ page'.error = "none"
                      /\ page'.buttons
                      /\ page'.shown = 1
                      /\ verification_data'.current_pair = 0
                /\ page'.error # "none" =>
                      /\ verification_data'.decisions = <<>>
                      /\ ~verification_data'.verification_complete
          /\ (page'.error # "none"
                /\ verification_data'.folder_path = verification_data.folder_path)
                => verification_data' = verification_data]_vars

\* the stored folder has vanished in the middle of a review: the error is
\* on the page and the log keeps its record
C9_Witness ==
    /\ page.error = "nofolder"
    /\ Len(log) = 1
    /\ Total = 2
    /\ ~Reviewing

\* C10: the download is offered only when all pairs have been reviewed (the
\* log holds one record per pair of the pair list, and there is at least
\* one), never while a pair is under review, and the exported rows are the
\* log records (identifier, decision, timestamp) in log order.
C10_DownloadOnlyWhenReviewed ==
    /\ page.download =>
          /\ Complete
          /\ Total >= 1
          /\ Len(log) = Total
          /\ cursor = Total
          /\ Len(page.csv) = Len(log)
          /\ \A i \in 1..Len(log) :
                page.csv[i] = <<log[i].property_id, log[i].decision, log[i].timestamp>>
    /\ (Reviewing \/ cursor < Total) => ~page.download

C10_Witness ==
    /\ page.download
    /\ Len(page.csv) = 2
    /\ page.csv[1][1] # page.csv[2][1]

----------------------------------------------------------------------------
(* The comparison tool: names used by the properties *)

\* the batch run has ended, with its report or with an uncaught exception
RunEnded == bpc \in {"done", "aborted"}

Common == ref_files \cap field_files

\* the number of calls of compare_images for a file name
Calls(n) == Cardinality({i \in 1..Len(compared) : compared[i] = n})

\* C5 as stated: at the end of a batch run compare_images has been called
\* exactly once for each name present in both collections and never for a
\* name present in one only, and when every comparison succeeded the number
\* of results is the size of the intersection.
C5_Original ==
    RunEnded =>
        /\ \A n \in Common : Calls(n) = 1
        /\ \A n \in FileNames \ Common : Calls(n) = 0
        /\ (Len(results) = Len(compared)) => Len(results) = Cardinality(Common)

\* C6 as stated: whatever subset of the common names fails to compare, the
\* loop visits every common name, the failed ones are left out of the
\* counts, and the run ends with the summary statistics.
C6_Original ==
    (RunEnded /\ Common # {}) =>
        /\ bpc = "done"
        /\ report.status = "summary"
        /\ \A n \in Common : Calls(n) = 1
        /\ report.total = Len(results)
        /\ report.matched = Matched(results)
        /\ report.nonmatching = report.total - report.matched

C8_MinDimensions ==
    cpc = "done" =>
        LET minh == IF image1.h <= image2.h THEN image1.h ELSE image2.h
            minw == IF image1.w <= image2.w THEN image1.w ELSE image2.w
            r == cmp_result
        IN  /\ ~r.none =>
                \A out \in {r.image1, r.image2, r.image_copy} :
                    out.h = minh /\ out.w = minw
            /\ (/\ image1.kind = "ok" /\ image2.kind = "ok"
                /\ image1.ch >= 3 /\ image2.ch >= 3
                /\ minh >= WinSize /\ minw >= WinSize) => ~r.none
            /\ r.none =>
                \/ compare_images(image1, image1, r.score).none
                \/ compare_images(image2, image2, r.score).none

C8_Witness ==
    /\ cpc = "done"
    /\ ~cmp_result.none
    /\ image1.h > image2.h
    /\ image1.w < image2.w
    /\ cmp_result.image_copy = [h |-> image2.h, w |-> image1.w, ch |-> 3]

----------------------------------------------------------------------------
(* get_image_pairs: names used by the properties *)

\* the set of file names in the folder of the call
Folder == {listing.files[i] : i \in DOMAIN listing.files}

\* the name ends in an image extension, in either case
HasImageExt(f) ==
    /\ Len(f) > 0
    /\ f[Len(f)] \in {".png", ".jpg", ".jpeg", ".PNG", ".JPG", ".JPEG"}

\* image files whose name contains _original
OriginalFiles == {f \in Folder : HasImageExt(f) /\ Contains(f, "_original")}

\* image files whose name contains _proof
ProofNamedFiles == {f \in Folder : HasImageExt(f) /\ Contains(f, "_proof")}

\* image files whose name contains _proof and not _original
ProofOnlyFiles == {f \in ProofNamedFiles : ~Contains(f, "_original")}

\* valid_pairs holds one pair for exactly the identifiers that have a file
\* in origs and a file in proofs, none twice, each pair naming such files
PairsMatch(origs, proofs) ==
    LET ids == {SplitFirst(f, "_original") : f \in origs}
                 \cap {SplitFirst(f, "_proof") : f \in proofs}
    IN  /\ {valid_pairs[i].id : i \in DOMAIN valid_pairs} = ids
        /\ \A i, j \in DOMAIN valid_pairs :
              i # j => valid_pairs[i].id # valid_pairs[j].id
        /\ \A i \in DOMAIN valid_pairs :
              /\ \E f \in origs :
                    /\ valid_pairs[i].original = <<PairFolder, f>>
                    /\ SplitFirst(f, "_original") = valid_pairs[i].id
              /\ \E f \in proofs :
                    /\ valid_pairs[i].proof = <<PairFolder, f>>
                    /\ SplitFirst(f, "_proof") = valid_pairs[i].id

\* C11 as stated: get_image_pairs returns one pair for exactly the
\* identifiers (the text before the marker) that have an image file whose
\* name contains _original and an image file whose name contains _proof,
\* none twice, each pair naming an _original file and a _proof file with
\* that prefix.
C11_Original == gpc = "done" => PairsMatch(OriginalFiles, ProofNamedFiles)

\* C11 (amended): the same, where a name that contains both markers counts
\* as an _original file only (its identifier is the text before the first
\* _original), so that the _proof files are the image files whose name
\* contains _proof and not _original.
C11_PairsOfCompleteIds == gpc = "done" => PairsMatch(OriginalFiles, ProofOnlyFiles)

\* a folder with two originals of p1, its proof and a name with both
\* markers: one pair, made of the original listed last
C11_Witness ==
    /\ gpc = "done"
    /\ Cardinality(Folder) = 4
    /\ <<"p1", "_proof", "_original", ".jpg">> \in Folder
    /\ <<"p1", "_original", ".jpg">> \in Folder
    /\ Len(valid_pairs) = 1
    /\ valid_pairs[1].id = <<"p1">>
    /\ valid_pairs[1].original = <<PairFolder, <<"p1", "_original", ".png">>>>
    /\ valid_pairs[1].proof = <<PairFolder, <<"p1", "_proof", ".PNG">>>>

====
